---- MODULE Spec2Model ----
(***************************************************************************)
(* A model of companiondogAI: the audio peak detector (run_audio), the     *)
(* rule-based text scorer (run_text), the detector adapter (run_vision),   *)
(* the fusion combiner (run_fusion) and the "Assess Risk" handler of the   *)
(* streamlit application.                                                  *)
(*                                                                         *)
(* Every adapter is a pure function of its input; each one gets a          *)
(* specification of its own whose Init draws the input from a bounded set  *)
(* and whose action applies the function once.  The handler is a small     *)
(* sequential state machine (SpecApp).                                     *)
(*                                                                         *)
(* Numbers.  Python floats are modelled by exact fixed-point integers:     *)
(*   - confidences, area ratios and scores given to run_fusion/run_vision  *)
(*     are in units of 1e-5 (UNIT = 1.0);                                  *)
(*   - the fused risk 0.6a + 0.2v + 0.2t is in units of 1e-6;              *)
(*   - values rounded to 3 decimals are in units of 1e-3;                  *)
(*   - text weights are in units of 1e-3.                                  *)
(* Floating-point representation error (1 ulp) is not modelled.            *)
(***************************************************************************)
EXTENDS Integers, Sequences, FiniteSets, TLC

VARIABLES
    mode,       \* which component this behaviour exercises
    pc,         \* position of the component / of the handler
    sr,         \* audio: sample rate in Hz
    y_len,      \* audio: number of samples of the waveform
    rms,        \* audio: librosa's per-frame RMS, as amplitude levels
    detected,   \* audio: the peaks handed to the scoring step on its own
    audio_out,  \* audio: the result of run_audio
    text,       \* text: the owner note, a sequence of words
    text_out,   \* text: the result of run_text
    image,      \* vision: "none" (no image), "ok" or "corrupt"
    detector,   \* vision: whether YOLO("yolov8n.pt") can be loaded
    boxes,      \* vision: the detections the detector returns
    vision_out, \* vision: the result of run_vision
    fus_in,     \* fusion: the inputs of the current call of run_fusion
    fus_prev,   \* fusion: inputs and result of the previous call, if any
    fusion_out  \* fusion: the result of run_fusion

vars == <<mode, pc, sr, y_len, rms, detected, audio_out, text, text_out, image, detector,
          boxes, vision_out, fus_in, fus_prev, fusion_out>>

None == "none"

(***************************************************************************)
(* Generic helpers                                                         *)
(***************************************************************************)
Range(s) == {s[i] : i \in DOMAIN s}

Abs(x) == IF x < 0 THEN -x ELSE x

Min(a, b) == IF a <= b THEN a ELSE b

Max(a, b) == IF a >= b THEN a ELSE b

RECURSIVE Gcd(_, _)
Gcd(a, b) == IF b = 0 THEN a ELSE Gcd(b, a % b)

RECURSIVE SeqsUpTo(_, _)
\* All sequences over S of length 0..n.
SeqsUpTo(S, n) ==
    IF n = 0 THEN {<< >>}
    ELSE LET shorter == SeqsUpTo(S, n - 1)
         IN  shorter \cup {Append(s, x) : s \in {t \in shorter : Len(t) = n - 1}, x \in S}

\* Exact rationals <<p, q>>, q > 0, kept in lowest terms.
Rat(p, q) == LET g == Gcd(Abs(p), q) IN IF g = 0 THEN <<0, 1>> ELSE <<p \div g, q \div g>>

RatLess(a, b) == a[1] * b[2] < b[1] * a[2]

RatMin(a, b) == IF RatLess(b, a) THEN b ELSE a

RatAdd(a, b) == Rat(a[1] * b[2] + b[1] * a[2], a[2] * b[2])

RatMul(a, b) == Rat(a[1] * b[1], a[2] * b[2])

\* round(p/q, 0) for p, q >= 0: nearest integer, an exact tie to the even one.
RoundDiv(p, q) ==
    LET d == p \div q
        r == p % q
    IN  IF 2 * r > q THEN d + 1
        ELSE IF 2 * r < q THEN d
        ELSE IF d % 2 = 0 THEN d ELSE d + 1

\* round(x, 3) of the rational x in [0, 1], in units of 1e-3, by long division
\* (one decimal digit at a time).
RatRound3(x) ==
    LET p  == x[1]
        q  == x[2]
        d0 == p \div q
        r0 == p % q
        d1 == (10 * r0) \div q
        r1 == (10 * r0) % q
        d2 == (10 * r1) \div q
        r2 == (10 * r1) % q
        d3 == (10 * r2) \div q
        r3 == (10 * r2) % q
        t  == 1000 * d0 + 100 * d1 + 10 * d2 + d3
    IN  IF 2 * r3 > q THEN t + 1
        ELSE IF 2 * r3 < q THEN t
        ELSE IF t % 2 = 0 THEN t ELSE t + 1

(***************************************************************************)
(* run_audio (audio_test.py)                                               *)
(*                                                                         *)
(* The waveform is given by what librosa.feature.rms makes of it: one RMS  *)
(* value per frame, 1 + len(y) // hop_length frames (centred framing).     *)
(* An RMS value is a level l in Levels; an all-zero waveform is the one    *)
(* whose frames all have level 0.  Amplitudes are fixed-point: one level   *)
(* is AMP model units, so that the moving average (a division by 5), the   *)
(* two medians (each may halve) and k * 1e-9 (k <= 10, EPS = one unit,     *)
(* below the 16-unit grid the other quantities live on) are all exact.     *)
(***************************************************************************)
frame_length == 2048

hop_length == 1024

win == 5

AMP == 64 * win

EPS == 1

\* bounds of the audio input
MaxFrames == 10

Levels == {0, 1}

\* waveforms with a louder burst, beyond the exhaustive ones
LoudWaveforms ==
    { <<0, 2, 0, 0, 1, 1, 0, 0, 1>>,
      <<1, 0, 0, 0, 0, 1, 0, 1, 2, 2>>,
      <<0, 1, 0, 0, 0, 1, 0, 0, 2, 2>>,
      <<0, 8, 1, 0, 0, 5, 0, 0, 5, 5>>,
      <<3, 0, 1, 0, 3, 0, 1, 0, 1, 2, 1, 0, 0>>,
      <<0, 0, 0, 0, 0, 0, 0, 0, 0, 0, 0, 0>> }

SampleRates == {4096, 8000, 22050}

Tails == {0, 1023}

\* 0-based indexing, as in the code
At(s, i) == s[i + 1]

RECURSIVE WindowSum(_, _, _)
\* sum of r[j] * kernel[k - j] over the j = lo .. hi that index both arrays
WindowSum(r, lo, hi) ==
    IF lo > hi THEN 0 ELSE At(r, lo) * (AMP \div win) + WindowSum(r, lo + 1, hi)

RECURSIVE SmoothFrom(_, _, _, _)
SmoothFrom(r, start, i, m) ==
    IF i >= m THEN << >>
    ELSE <<WindowSum(r, Max(0, i + start - (win - 1)), Min(Len(r) - 1, i + start))>>
         \o SmoothFrom(r, start, i + 1, m)

\* np.convolve(rms, ones(win)/win, mode="same"): the centred slice, of length
\* max(len(rms), win), of the full convolution.
Smooth(r) ==
    LET short == Min(Len(r), win)
    IN  SmoothFrom(r, (short - 1) - (short \div 2), 0, Max(Len(r), win))

RECURSIVE AbsDev(_, _)
\* np.abs(rms_smooth - med)
AbsDev(s, med) ==
    IF s = << >> THEN << >> ELSE <<Abs(Head(s) - med)>> \o AbsDev(Tail(s), med)

\* the k-th smallest element (k = 1 .. Len(s)) of a sequence of numbers
KthSmallest(s, k) ==
    CHOOSE v \in Range(s) :
        /\ Cardinality({i \in DOMAIN s : s[i] < v}) < k
        /\ Cardinality({i \in DOMAIN s : s[i] <= v}) >= k

\* np.median: the middle element, or the mean of the two middle elements
Median(s) ==
    LET n == Len(s)
    IN  IF n % 2 = 1 THEN KthSmallest(s, (n + 1) \div 2)
        ELSE (KthSmallest(s, n \div 2) + KthSmallest(s, n \div 2 + 1)) \div 2

Med(rms_smooth) == Median(rms_smooth)

Mad(rms_smooth) ==
    Median(AbsDev(rms_smooth, Med(rms_smooth))) + EPS

\* int(min_event_distance_s * sr / hop_length) with min_event_distance_s = 0.5:
\* int() truncates
min_distance_frames(rate) == rate \div (2 * hop_length)

IsPeak(rms_smooth, i, thr) ==
    /\ At(rms_smooth, i) > thr
    /\ At(rms_smooth, i) > At(rms_smooth, i - 1)
    /\ At(rms_smooth, i) > At(rms_smooth, i + 1)

RECURSIVE DetectFrom(_, _, _, _, _)
\* the loop of detect_peaks from index i on, peaks being those found so far
DetectFrom(rms_smooth, thr, mind, i, peaks) ==
    IF i > Len(rms_smooth) - 2 THEN peaks
    ELSE IF /\ IsPeak(rms_smooth, i, thr)
            /\ (Len(peaks) = 0 \/ (i - peaks[Len(peaks)]) >= mind)
         THEN DetectFrom(rms_smooth, thr, mind, i + 1, Append(peaks, i))
         ELSE DetectFrom(rms_smooth, thr, mind, i + 1, peaks)

detect_peaks(rms_smooth, thr, mind) == DetectFrom(rms_smooth, thr, mind, 1, << >>)

\* Ks with a fault: the fallbacks are tried first
KsAscending == <<6, 8, 10>>

\* thresholds: main + fallbacks
Ks == <<10, 8, 6>>

Threshold(rms_smooth, k) == Med(rms_smooth) + k * Mad(rms_smooth)

RECURSIVE PeaksFrom(_, _, _)
\* the loop over the thresholds from the n-th on: the first non-empty peak set
PeaksFrom(rms_smooth, mind, n) ==
    LET p == detect_peaks(rms_smooth, Threshold(rms_smooth, Ks[n]), mind)
    IN  IF Len(p) > 0 \/ n = Len(Ks) THEN p
        ELSE PeaksFrom(rms_smooth, mind, n + 1)

peak_indices(r, rate) == PeaksFrom(Smooth(r), min_distance_frames(rate), 1)

\* np.round(peak * hop_length / sr, 2), in hundredths of a second
Timestamp(peak, rate) == RoundDiv(100 * peak * hop_length, rate)

\* events_per_10s with a fault: the rate per second, "duration_s / 10" written
\* as "duration_s"
events_per_second(num_events, len, rate) ==
    IF len = 0 THEN Rat(num_events * 1000000000, 1)
    ELSE Rat(num_events * rate, len)

\* events_per_10s = num_events / max(1e-9, duration_s / 10); with at least one
\* sample duration_s / 10 exceeds 1e-9 for every sample rate below 1e8
events_per_10s(num_events, len, rate) ==
    IF len = 0 THEN Rat(num_events * 1000000000, 1)
    ELSE Rat(num_events * 10 * rate, len)

RawScore(num_events, len, rate) ==
    LET rate_score  == RatMin(<<1, 1>>, RatMul(events_per_10s(num_events, len, rate), <<1, 6>>))
        count_score == RatMin(<<1, 1>>, Rat(num_events, 25))
    IN  RatMin(<<1, 1>>, RatAdd(RatMul(<<1, 2>>, rate_score), RatMul(<<1, 2>>, count_score)))

\* Damp with a fault: "raw_score = 0.4" written for "raw_score *= 0.4"
DampAssigned(raw_score) == <<2, 5>>

\* raw_score *= 0.4
Damp(raw_score) == RatMul(raw_score, <<2, 5>>)

\* cough_score, in units of 1e-3
CoughScore(num_events, len, rate) ==
    LET raw_score == RawScore(num_events, len, rate)
    IN  RatRound3(IF num_events < 4 THEN Damp(raw_score) ELSE raw_score)

\* the part of run_audio after the detection: timestamps, count and score
score_peaks(peaks, len, rate) ==
    [cough_score |-> CoughScore(Len(peaks), len, rate),
     events      |-> Len(peaks),
     timestamps  |-> [i \in DOMAIN peaks |-> Timestamp(peaks[i], rate)],
     peaks       |-> peaks]

run_audio(r, len, rate) == score_peaks(peak_indices(r, rate), len, rate)

Waveforms == (SeqsUpTo(Levels, MaxFrames) \ {<< >>}) \cup LoudWaveforms

InitAudio ==
    /\ mode = "audio"
    /\ pc = "loaded"
    /\ sr \in SampleRates
    /\ rms \in Waveforms
    /\ \E tail \in Tails : y_len = (Len(rms) - 1) * hop_length + tail
    /\ detected = << >> /\ audio_out = None
    /\ text = << >> /\ text_out = None
    /\ image = None /\ detector = "available" /\ boxes = << >> /\ vision_out = None
    /\ fus_in = None /\ fus_prev = << >> /\ fusion_out = None

RunAudio ==
    /\ mode = "audio"
    /\ pc = "loaded"
    /\ audio_out' = run_audio(rms, y_len, sr)
    /\ pc' = "done"
    /\ UNCHANGED <<mode, detected, sr, y_len, rms, text, text_out, image, detector,
                   boxes, vision_out,
                   fus_in, fus_prev, fusion_out>>

SpecAudio == InitAudio /\ [][RunAudio]_vars

\* The scoring step on its own: a clip of whole seconds in which the detection
\* found a given number of peaks, as closely spaced as two strict local maxima
\* min_distance_frames apart can be.
MaxEvents == 30

Durations == {1, 5, 20, 60}

PeakGap(rate) == Max(2, min_distance_frames(rate))

SpacedPeaks(n, rate) == [i \in 1 .. n |-> 1 + (i - 1) * PeakGap(rate)]

\* the peaks are interior frames of the clip
FitsClip(peaks, len) ==
    \A i \in DOMAIN peaks : peaks[i] <= (1 + len \div hop_length) - 2

InitScore ==
    /\ mode = "score"
    /\ pc = "detected"
    /\ sr \in SampleRates
    /\ \E d \in Durations : y_len = d * sr
    /\ \E n \in 0 .. MaxEvents : detected = SpacedPeaks(n, sr)
    /\ FitsClip(detected, y_len)
    /\ rms = << >> /\ audio_out = None
    /\ text = << >> /\ text_out = None
    /\ image = None /\ detector = "available" /\ boxes = << >> /\ vision_out = None
    /\ fus_in = None /\ fus_prev = << >> /\ fusion_out = None

ScoreEvents ==
    /\ mode = "score"
    /\ pc = "detected"
    /\ audio_out' = score_peaks(detected, y_len, sr)
    /\ pc' = "done"
    /\ UNCHANGED <<mode, detected, sr, y_len, rms, text, text_out, image, detector,
                   boxes, vision_out,
                   fus_in, fus_prev, fusion_out>>

InitAudioScore == InitAudio \/ InitScore

NextAudioScore == RunAudio \/ ScoreEvents

SpecAudioScore == InitAudioScore /\ [][NextAudioScore]_vars

(***************************************************************************)
(* run_text (text_prototype.py)                                            *)
(*                                                                         *)
(* The note is a sequence of tokens: a token is a word of letters (and     *)
(* apostrophes) or the comma; words are separated by single blanks.  A     *)
(* regular expression \bw1 w2\b then matches where the words w1, w2 are    *)
(* consecutive tokens, and \bcue\s+term\b where cue and term are.          *)
(* Weights and scores are in units of 1e-3.                                *)
(***************************************************************************)
MaxWords == 3

Vocabulary ==
    {"no", "not", "doesn't", "cough", "Coughing", "hacking", "tired", "low",
     "energy", "eating", "appetite", "kennel", "night", "dog", ","}

HackingNote ==
    <<"My", "dog", "has", "a", "hacking", "cough", "after", "daycare", "and",
      "is", "very", "tired">>

NegatedNote == <<"no", "cough", ",", "no", "gagging">>

EverythingNote ==
    <<"frequent", "daily", "dry", "cough", "at", "night", ",", "gag", ",",
      "sneeze", ",", "weak", ",", "kennel", ",", "poor", "appetite">>

QuietNote == <<"My", "dog", "is", "very", "well">>

Notes ==
    SeqsUpTo(Vocabulary, MaxWords)
        \cup {HackingNote, NegatedNote, EverythingNote, QuietNote}

\* str.lower() on one token
LowerWord(w) ==
    CASE w = "My" -> "my"
      [] w = "Coughing" -> "coughing"
      [] OTHER -> w

\* (owner_note or "").strip().lower()
Normalize(owner_note) == [i \in DOMAIN owner_note |-> LowerWord(owner_note[i])]

\* re.search(rf"\b{pat}\b", text) at token i: the words of pat are the tokens
\* i, i+1, ...
MatchAt(txt, i, pat) ==
    /\ i + Len(pat) - 1 <= Len(txt)
    /\ \A k \in 1 .. Len(pat) : txt[i + k - 1] = pat[k]

Search(txt, pat) == \E i \in 1 .. Len(txt) : MatchAt(txt, i, pat)

\* the cues of is_negated: no, not, without, doesn't / doesnt, didn't / didnt
NegationCues ==
    {"no", "not", "without", "doesn't", "doesnt", "didn't", "didnt"}

\* is_negated(term): some cue followed by term, anywhere in the text
is_negated(txt, term) ==
    \E cue \in NegationCues : Search(txt, <<cue, term>>)

Concepts == <<"cough", "gagging", "sneeze", "lethargy", "daycare", "appetite_loss">>

Patterns(concept) ==
    CASE concept = "cough" ->
            << <<"cough">>, <<"coughing">>, <<"hacking">>, <<"hack">> >>
      [] concept = "gagging" ->
            << <<"gag">>, <<"gagging">>, <<"retch">>, <<"retching">> >>
      [] concept = "sneeze" ->
            << <<"sneeze">>, <<"sneezing">> >>
      [] concept = "lethargy" ->
            << <<"lethargy">>, <<"lethargic">>, <<"low", "energy">>, <<"tired">>,
               <<"fatigue">>, <<"weak">> >>
      [] concept = "daycare" ->
            << <<"daycare">>, <<"kennel">>, <<"boarding">>, <<"grooming">> >>
      [] concept = "appetite_loss" ->
            << <<"not", "eating">>, <<"loss", "of", "appetite">>,
               <<"no", "appetite">>, <<"poor", "appetite">> >>

SymptomConcepts == {"cough", "gagging", "sneeze", "lethargy", "appetite_loss"}

\* the inner loop of run_text over the patterns of one concept: found is set by
\* the first pattern that occurs and, for a symptom concept, whose first word
\* is not negated
Found(txt, concept) ==
    LET pats == Patterns(concept)
    IN  \E n \in DOMAIN pats :
            /\ Search(txt, pats[n])
            /\ ~(concept \in SymptomConcepts /\ is_negated(txt, pats[n][1]))

RECURSIVE DetectedFrom(_, _)
\* the loop over concepts, in the order of the dict: detected.append(concept)
DetectedFrom(txt, n) ==
    IF n > Len(Concepts) THEN << >>
    ELSE (IF Found(txt, Concepts[n]) THEN <<Concepts[n]>> ELSE << >>)
         \o DetectedFrom(txt, n + 1)

RECURSIVE Dedup(_, _)
\* list(dict.fromkeys(detected)): first occurrences, in order
Dedup(s, seen) ==
    IF s = << >> THEN << >>
    ELSE IF Head(s) \in seen THEN Dedup(Tail(s), seen)
         ELSE <<Head(s)>> \o Dedup(Tail(s), seen \cup {Head(s)})

Keywords(txt) == Dedup(DetectedFrom(txt, 1), {})

\* the four intensity modifiers, in the order of the code: name, patterns, weight
Modifiers ==
    << [name |-> "frequent", weight |-> 150,
        pats |-> {<<"frequent">>, <<"often">>, <<"repeated">>, <<"many">>, <<"several">>}],
       [name |-> "daily/multiple", weight |-> 150,
        pats |-> {<<"multiple", "times">>, <<"every", "day">>, <<"daily">>}],
       [name |-> "night", weight |-> 100,
        pats |-> {<<"at", "night">>, <<"night">>, <<"keeping", "us", "up">>}],
       [name |-> "dry/hacking", weight |-> 100,
        pats |-> {<<"dry">>, <<"hacking">>, <<"choking">>}] >>

Triggered(txt, m) == \E pat \in m.pats : Search(txt, pat)

RECURSIVE ModifiersFrom(_, _)
ModifiersFrom(txt, n) ==
    IF n > Len(Modifiers) THEN << >>
    ELSE (IF Triggered(txt, Modifiers[n]) THEN <<Modifiers[n].name>> ELSE << >>)
         \o ModifiersFrom(txt, n + 1)

RECURSIVE Intensity(_, _)
Intensity(txt, n) ==
    IF n > Len(Modifiers) THEN 0
    ELSE (IF Triggered(txt, Modifiers[n]) THEN Modifiers[n].weight ELSE 0)
         + Intensity(txt, n + 1)

\* weights with a fault: "lethargy" is missing and gets the default 0.10
weights_default_lethargy(k) ==
    CASE k = "cough" -> 250
      [] k = "gagging" -> 200
      [] k = "sneeze" -> 100
      [] k = "daycare" -> 100
      [] k = "appetite_loss" -> 250
      [] OTHER -> 100

\* weights.get(k, 0.10)
weights(k) ==
    CASE k = "cough" -> 250
      [] k = "gagging" -> 200
      [] k = "sneeze" -> 100
      [] k = "lethargy" -> 200
      [] k = "daycare" -> 100
      [] k = "appetite_loss" -> 250
      [] OTHER -> 100

RECURSIVE SumWeights(_)
SumWeights(keywords) ==
    IF keywords = << >> THEN 0 ELSE weights(Head(keywords)) + SumWeights(Tail(keywords))

\* severity is a sum of multiples of 0.05, which round(., 3) leaves alone
Severity(txt) == SumWeights(Keywords(txt)) + Intensity(txt, 1)

run_text(owner_note) ==
    LET txt == Normalize(owner_note)
    IN  IF txt = << >>
        THEN [keywords |-> << >>, modifiers_detected |-> << >>,
              severity_score |-> 0, notes |-> "No owner note provided"]
        ELSE [keywords |-> Keywords(txt),
              modifiers_detected |-> ModifiersFrom(txt, 1),
              severity_score |-> Min(1000, Severity(txt)),
              notes |-> "Rule-based NLP with negation + intensity modifiers (interpretable)"]

InitText ==
    /\ mode = "text"
    /\ pc = "loaded"
    /\ text \in Notes
    /\ text_out = None
    /\ sr = 0 /\ y_len = 0 /\ rms = << >> /\ detected = << >> /\ audio_out = None
    /\ image = None /\ detector = "available" /\ boxes = << >> /\ vision_out = None
    /\ fus_in = None /\ fus_prev = << >> /\ fusion_out = None

RunText ==
    /\ mode = "text"
    /\ pc = "loaded"
    /\ text_out' = run_text(text)
    /\ pc' = "done"
    /\ UNCHANGED <<mode, detected, sr, y_len, rms, audio_out, text, image, detector,
                   boxes, vision_out,
                   fus_in, fus_prev, fusion_out>>

SpecText == InitText /\ [][RunText]_vars

(***************************************************************************)
(* run_vision (vision_test.py)                                             *)
(*                                                                         *)
(* The detector (ultralytics YOLO) is external: what it returns for an     *)
(* image is a sequence of detections (label, confidence, box), and it      *)
(* raises when the weights cannot be loaded or the image cannot be read.   *)
(* Confidences and area ratios are in units of 1e-5 (UNIT is 1.0); values  *)
(* rounded to 3 decimals are in units of 1e-3.                             *)
(***************************************************************************)
UNIT == 100 * 1000

\* round(x, 3) of x given in units of 1e-5
Round3(x) == RoundDiv(x, UNIT \div 1000)

\* r.orig_shape
Shape == [h |-> 100, w |-> 100]

MaxBoxes == 2

DogConfs == {59999, 60000, 69999, 70000, 84999, 85000}

CarConfs == {59999, 60000}

\* xyxy boxes: area ratios 0.0299, 0.03, 0.0598, 0.06, and a degenerate box
DogBoxes ==
    { <<0, 0, 13, 23>>, <<10, 10, 20, 40>>, <<0, 0, 23, 26>>, <<10, 10, 30, 40>>,
      <<50, 10, 40, 20>> }

Detections ==
    [label : {"dog"}, conf : DogConfs, box : DogBoxes]
        \cup [label : {"car"}, conf : CarConfs, box : {<<0, 0, 50, 50>>}]
        \cup [label : {"person"}, conf : {90000}, box : {<<0, 0, 100, 100>>}]

DOG_STRONG == 70000

DOG_GREY == 60000

CAR_VETO == 60000

MIN_AREA_RATIO == 3000

GREY_AREA_RATIO == 6000

VETO_OVERRIDE == 85000

\* area = max(0.0, (x2 - x1) * (y2 - y1)); area_ratio = area / img_area
AreaRatio(box) ==
    LET area     == Max(0, (box[3] - box[1]) * (box[4] - box[2]))
        img_area == Shape.w * Shape.h
    IN  (area * UNIT) \div img_area

\* max(xs, default=0.0)
MaxOf(xs) == IF xs = {} THEN 0 ELSE CHOOSE x \in xs : \A y \in xs : y <= x

\* car_conf = max(car_conf, conf) over the "car" boxes, from 0.0
CarConf(bs) == MaxOf({bs[i].conf : i \in {j \in DOMAIN bs : bs[j].label = "car"}})

\* dog_candidates: (conf, area_ratio) of the "dog" boxes
DogCandidates(bs) ==
    {<<bs[i].conf, AreaRatio(bs[i].box)>> : i \in {j \in DOMAIN bs : bs[j].label = "dog"}}

DogConf(bs) == MaxOf({c[1] : c \in DogCandidates(bs)})

BestArea(bs) == MaxOf({c[2] : c \in DogCandidates(bs)})

\* DogDetected with a fault: the veto also hits a dog of confidence 0.85
DogDetectedVetoAt85(dog_conf, best_area, car_conf) ==
    LET accepted ==
            IF dog_conf >= DOG_STRONG /\ best_area >= MIN_AREA_RATIO THEN TRUE
            ELSE IF dog_conf >= DOG_GREY /\ best_area >= GREY_AREA_RATIO THEN TRUE
            ELSE FALSE
    IN  IF car_conf >= CAR_VETO /\ dog_conf <= VETO_OVERRIDE THEN FALSE ELSE accepted

\* the decision logic: strong detection, grey zone, car veto
DogDetected(dog_conf, best_area, car_conf) ==
    LET accepted ==
            IF dog_conf >= DOG_STRONG /\ best_area >= MIN_AREA_RATIO THEN TRUE
            ELSE IF dog_conf >= DOG_GREY /\ best_area >= GREY_AREA_RATIO THEN TRUE
            ELSE FALSE
    IN  IF car_conf >= CAR_VETO /\ dog_conf < VETO_OVERRIDE THEN FALSE ELSE accepted

run_vision(bs) ==
    [dog_detected    |-> DogDetected(DogConf(bs), BestArea(bs), CarConf(bs)),
     dog_conf        |-> Round3(DogConf(bs)),
     car_conf        |-> Round3(CarConf(bs)),
     best_area_ratio |-> Round3(BestArea(bs)),
     detected        |-> [i \in DOMAIN bs |->
                            <<bs[i].label, Round3(bs[i].conf), Round3(AreaRatio(bs[i].box))>>]]

\* YOLO("yolov8n.pt") or model(image_path) raises
VisionRaises == detector = "unavailable" \/ image = "corrupt"

InitVision ==
    /\ mode = "vision"
    /\ pc = "loaded"
    /\ image \in {"ok", "corrupt"}
    /\ detector \in {"available", "unavailable"}
    /\ boxes \in SeqsUpTo(Detections, MaxBoxes)
    /\ (image = "corrupt" => boxes = << >>)
    /\ vision_out = None
    /\ sr = 0 /\ y_len = 0 /\ rms = << >> /\ detected = << >> /\ audio_out = None
    /\ text = << >> /\ text_out = None
    /\ fus_in = None /\ fus_prev = << >> /\ fusion_out = None

RunVision ==
    /\ mode = "vision"
    /\ pc = "loaded"
    /\ ~VisionRaises
    /\ vision_out' = run_vision(boxes)
    /\ pc' = "done"
    /\ UNCHANGED <<mode, detected, sr, y_len, rms, audio_out, text, text_out, image, detector,
                   boxes, fus_in, fus_prev, fusion_out>>

RunVisionRaises ==
    /\ mode = "vision"
    /\ pc = "loaded"
    /\ VisionRaises
    /\ pc' = "raised"
    /\ UNCHANGED <<mode, detected, sr, y_len, rms, audio_out, text, text_out, image, detector,
                   boxes, vision_out, fus_in, fus_prev, fusion_out>>

NextVision == RunVision \/ RunVisionRaises

SpecVision == InitVision /\ [][NextVision]_vars

(***************************************************************************)
(* run_fusion (fusion_test.py)                                             *)
(*                                                                         *)
(* Inputs (cough_score, dog_conf, severity_score) are in units of 1e-5;    *)
(* risk = 0.6 a + 0.2 v + 0.2 t is then 6a + 2v + 2t in units of 1e-6.     *)
(* SpecFusion calls run_fusion again and again and keeps the previous      *)
(* call, so that two calls can be compared.                                *)
(***************************************************************************)
RISK_UNIT == 10 * UNIT

AudioScores == {0, 33300, 33333, 50000, 60000, 66700, 100000}

VisionConfs == {0, 50000, 100000}

TextScores == {0, 25000, 65000, 99995, 100000}

FusionInputs ==
    [a : AudioScores, dog_conf : VisionConfs, dog_detected : BOOLEAN, t : TextScores]

\* VisionTerm with a fault: the confidence counts whether or not a dog was detected
VisionTermAlways(dog_detected, dog_conf) == dog_conf

\* VisionTerm with a fault: the condition is inverted
VisionTermInverted(dog_detected, dog_conf) == IF dog_detected THEN 0 ELSE dog_conf

\* v = vision_out.get("dog_conf", 0.0) if vision_out.get("dog_detected") else 0.0
VisionTerm(dog_detected, dog_conf) == IF dog_detected THEN dog_conf ELSE 0

\* risk = (0.6 * a) + (0.2 * v) + (0.2 * t)
Risk(a, v, t) == 6 * a + 2 * v + 2 * t

\* the risk of a call with inputs in, before rounding
FusedRisk(in) == Risk(in.a, VisionTerm(in.dog_detected, in.dog_conf), in.t)

\* Level with a fault: "High" from 0.5 on
LevelHighFromHalf(risk) ==
    IF 2 * risk >= RISK_UNIT THEN "High"
    ELSE IF 5 * risk >= RISK_UNIT THEN "Medium"
    ELSE "Low"

\* if risk > 0.5 ... elif risk >= 0.2 ... else
Level(risk) ==
    IF 2 * risk > RISK_UNIT THEN "High"
    ELSE IF 5 * risk >= RISK_UNIT THEN "Medium"
    ELSE "Low"

Explanation(a, dog_detected, t) ==
    LET lines ==
            (IF 5 * a >= 3 * UNIT THEN <<"Audio: cough-like events detected.">> ELSE << >>)
            \o (IF dog_detected THEN <<"Vision: dog detected in image.">> ELSE << >>)
            \o (IF t > 0 THEN <<"Text: symptoms mentioned">> ELSE << >>)
    IN  IF lines = << >> THEN <<"No strong signals found from inputs.">> ELSE lines

\* round(risk, 3), risk in units of 1e-6, the result in units of 1e-3
RoundRisk(risk) == RoundDiv(risk, RISK_UNIT \div 1000)

run_fusion(a, dog_detected, dog_conf, t) ==
    LET v    == VisionTerm(dog_detected, dog_conf)
        risk == Risk(a, v, t)
    IN  [risk_score  |-> RoundRisk(risk),
         risk_level  |-> Level(risk),
         explanation |-> Explanation(a, dog_detected, t)]

InitFusion ==
    /\ mode = "fusion"
    /\ pc = "loaded"
    /\ fus_in \in FusionInputs
    /\ fus_prev = << >>
    /\ fusion_out = None
    /\ sr = 0 /\ y_len = 0 /\ rms = << >> /\ detected = << >> /\ audio_out = None
    /\ text = << >> /\ text_out = None
    /\ image = None /\ detector = "available" /\ boxes = << >> /\ vision_out = None

RunFusion ==
    /\ mode = "fusion"
    /\ pc = "loaded"
    /\ fusion_out' = run_fusion(fus_in.a, fus_in.dog_detected, fus_in.dog_conf, fus_in.t)
    /\ pc' = "done"
    /\ UNCHANGED <<mode, detected, sr, y_len, rms, audio_out, text, text_out, image, detector,
                   boxes, vision_out, fus_in, fus_prev>>

\* the next, independent call: the finished one is kept for comparison
NextCall ==
    /\ mode = "fusion"
    /\ pc = "done"
    /\ fus_prev' = <<[in |-> fus_in, out |-> fusion_out]>>
    /\ fus_in' \in FusionInputs
    /\ fusion_out' = None
    /\ pc' = "loaded"
    /\ UNCHANGED <<mode, detected, sr, y_len, rms, audio_out, text, text_out, image, detector,
                   boxes, vision_out>>

NextFusion == RunFusion \/ NextCall

SpecFusion == InitFusion /\ [][NextFusion]_vars

(***************************************************************************)
(* The "Assess Risk" handler (streamlit_app.py)                            *)
(*                                                                         *)
(* One run of the script body under the button: the adapters are called    *)
(* in sequence, and an exception raised by one of them ends the run (no    *)
(* try/except surrounds the calls).  pc is the position in the handler.    *)
(***************************************************************************)
AppClips ==
    { [rms |-> <<0, 0, 0, 0, 0, 0>>, sr |-> 8000],
      [rms |-> <<1, 0, 0, 1, 1, 0, 0, 1, 0, 1>>, sr |-> 8000],
      [rms |-> <<1, 0, 1, 0, 1, 0, 1>>, sr |-> 4096] }

AppDetections ==
    { << >>,
      << [label |-> "dog", conf |-> 85000, box |-> <<10, 10, 30, 40>>] >>,
      << [label |-> "dog", conf |-> 70000, box |-> <<10, 10, 20, 40>>],
         [label |-> "car", conf |-> 60000, box |-> <<0, 0, 50, 50>>] >>,
      << [label |-> "person", conf |-> 90000, box |-> <<0, 0, 100, 100>>] >> }

AppNotes == {<< >>, HackingNote, NegatedNote, EverythingNote}

\* the vision_out used when no image was uploaded
NoImageDefault == [dog_detected |-> FALSE, dog_conf |-> 0, notes |-> "No image provided"]

InitApp ==
    /\ mode = "app"
    /\ pc = "idle"
    /\ \E clip \in AppClips :
          /\ rms = clip.rms
          /\ sr = clip.sr
          /\ y_len = (Len(clip.rms) - 1) * hop_length
    /\ image \in {None, "ok", "corrupt"}
    /\ detector \in {"available", "unavailable"}
    /\ boxes \in AppDetections
    /\ (image # "ok" => boxes = << >>)
    /\ text \in AppNotes
    /\ detected = << >> /\ audio_out = None /\ text_out = None /\ vision_out = None
    /\ fus_in = None /\ fus_prev = << >> /\ fusion_out = None

\* the button is enabled (can_run: an audio file is uploaded); the uploads are
\* saved and audio_out = run_audio(audio_path)
AssessRisk ==
    /\ mode = "app"
    /\ pc = "idle"
    /\ audio_out' = run_audio(rms, y_len, sr)
    /\ pc' = "audio_done"
    /\ UNCHANGED <<mode, detected, sr, y_len, rms, text, text_out, image, detector, boxes,
                   vision_out, fus_in, fus_prev, fusion_out>>

\* if image_path is not None: vision_out = run_vision(image_path)
VisionStep ==
    /\ mode = "app"
    /\ pc = "audio_done"
    /\ image # None
    /\ ~VisionRaises
    /\ vision_out' = run_vision(boxes)
    /\ pc' = "vision_done"
    /\ UNCHANGED <<mode, detected, sr, y_len, rms, audio_out, text, text_out, image, detector,
                   boxes, fus_in, fus_prev, fusion_out>>

\* run_vision raises: the exception leaves the handler, the run ends
VisionStepRaises ==
    /\ mode = "app"
    /\ pc = "audio_done"
    /\ image # None
    /\ VisionRaises
    /\ pc' = "aborted"
    /\ UNCHANGED <<mode, detected, sr, y_len, rms, audio_out, text, text_out, image, detector,
                   boxes, vision_out, fus_in, fus_prev, fusion_out>>

\* else: the "No image provided" default
VisionSkipped ==
    /\ mode = "app"
    /\ pc = "audio_done"
    /\ image = None
    /\ vision_out' = NoImageDefault
    /\ pc' = "vision_done"
    /\ UNCHANGED <<mode, detected, sr, y_len, rms, audio_out, text, text_out, image, detector,
                   boxes, fus_in, fus_prev, fusion_out>>

\* text_out = run_text(owner_note)
TextStep ==
    /\ mode = "app"
    /\ pc = "vision_done"
    /\ text_out' = run_text(text)
    /\ pc' = "text_done"
    /\ UNCHANGED <<mode, detected, sr, y_len, rms, audio_out, text, image, detector, boxes,
                   vision_out, fus_in, fus_prev, fusion_out>>

\* fusion_out = run_fusion(audio_out, vision_out, text_out); the adapters
\* report in units of 1e-3, run_fusion reads units of 1e-5
FusionStep ==
    /\ mode = "app"
    /\ pc = "text_done"
    /\ fus_in' = [a |-> audio_out.cough_score * (UNIT \div 1000),
                  dog_conf |-> vision_out.dog_conf * (UNIT \div 1000),
                  dog_detected |-> vision_out.dog_detected,
                  t |-> text_out.severity_score * (UNIT \div 1000)]
    /\ fusion_out' = run_fusion(fus_in'.a, fus_in'.dog_detected, fus_in'.dog_conf, fus_in'.t)
    /\ pc' = "complete"
    /\ UNCHANGED <<mode, detected, sr, y_len, rms, audio_out, text, text_out, image, detector,
                   boxes, vision_out, fus_prev>>

NextApp ==
    \/ AssessRisk
    \/ VisionStep
    \/ VisionStepRaises
    \/ VisionSkipped
    \/ TextStep
    \/ FusionStep

SpecApp == InitApp /\ [][NextApp]_vars

(***************************************************************************)
(* The claims                                                              *)
(***************************************************************************)

\* C1: run_audio never reports two events closer than 0.5 s: any two detected
\* peaks at frames i < j satisfy (j - i) * 1024 / sample_rate >= 0.5.
C1_PeaksHalfSecondApart ==
    (mode = "audio" /\ pc = "done") =>
        \A i, j \in DOMAIN audio_out.peaks :
            i < j => 2 * (audio_out.peaks[j] - audio_out.peaks[i]) * hop_length >= sr

\* the symptom concepts and the negation cues as C2 lists them
C2Symptoms == {"cough", "gagging", "sneeze", "lethargy", "appetite_loss"}

C2Cues == {"no", "not", "without", "doesn't", "didn't"}

\* an occurrence of a variant of the concept whose first word is not immediately
\* preceded by a negation cue
C2UnnegatedOccurrence(txt, concept) ==
    \E n \in DOMAIN Patterns(concept) : \E i \in 1 .. Len(txt) :
        /\ MatchAt(txt, i, Patterns(concept)[n])
        /\ ~(i > 1 /\ txt[i - 1] \in C2Cues)

\* C2: a symptom concept is in keywords if and only if the text has at least one
\* occurrence of one of its variants that is not immediately preceded by a
\* negation cue.
C2_KeywordIffUnnegatedOccurrence ==
    (mode = "text" /\ pc = "done") =>
        \A concept \in C2Symptoms :
            (concept \in Range(text_out.keywords))
                <=> C2UnnegatedOccurrence(Normalize(text), concept)

\* the dog detections of maximum confidence
C3MostConfidentDogs ==
    {i \in DOMAIN boxes :
        /\ boxes[i].label = "dog"
        /\ \A j \in DOMAIN boxes : boxes[j].label = "dog" => boxes[j].conf <= boxes[i].conf}

\* C3: best_area_ratio, and the area the decision rule uses, is the area ratio of
\* the dog detection of maximum confidence (the box that supplies dog_conf); 0
\* with no dog box.
C3_BestAreaOfMostConfidentDog ==
    (mode = "vision" /\ pc = "done") =>
        IF C3MostConfidentDogs = {}
        THEN BestArea(boxes) = 0 /\ vision_out.best_area_ratio = 0
        ELSE \E i \in C3MostConfidentDogs :
                /\ BestArea(boxes) = AreaRatio(boxes[i].box)
                /\ vision_out.best_area_ratio = Round3(AreaRatio(boxes[i].box))

\* C4: when the vision adapter fails on a provided image, the run substitutes
\* the "not detected" default and goes on to run_text and run_fusion: a vision
\* failure never aborts the run.
C4_VisionFailureNeverAborts ==
    (mode = "app" /\ image # None /\ VisionRaises /\ pc \notin {"idle", "audio_done"}) =>
        /\ pc # "aborted"
        /\ vision_out.dog_detected = FALSE
        /\ vision_out.dog_conf = 0

\* C5: dog_detected = ((dog_conf >= 0.70 and area >= 0.03) or (dog_conf >= 0.60
\* and area >= 0.06)) and not (car_conf >= 0.60 and dog_conf < 0.85), where
\* dog_conf, area and car_conf are the values the rule is applied to.
C5_DecisionRule ==
    (mode = "vision" /\ pc = "done") =>
        LET d == DogConf(boxes)
            a == BestArea(boxes)
            c == CarConf(boxes)
        IN  /\ vision_out.dog_detected =
                    (/\ (d >= 70000 /\ a >= 3000) \/ (d >= 60000 /\ a >= 6000)
                     /\ ~(c >= 60000 /\ d < 85000))
            /\ (c >= 60000 /\ d < 85000) => ~vision_out.dog_detected

\* the veto overrides a strong detection
C5_Witness ==
    /\ mode = "vision" /\ pc = "done"
    /\ DogConf(boxes) >= 70000 /\ DogConf(boxes) < 85000
    /\ BestArea(boxes) >= 3000
    /\ CarConf(boxes) >= 60000
    /\ vision_out.dog_detected = FALSE

\* C6: High iff risk > 0.5, Medium iff 0.2 <= risk <= 0.5, Low otherwise; risk
\* 0.5 and 0.2 are Medium, 0.19999 is Low; exactly one label per risk.
C6_LabelBoundaries ==
    (mode = "fusion" /\ pc = "done") =>
        LET risk == FusedRisk(fus_in)
        IN  /\ fusion_out.risk_level \in {"Low", "Medium", "High"}
            /\ (fusion_out.risk_level = "High") <=> (risk > 500000)
            /\ (fusion_out.risk_level = "Medium") <=> (200000 <= risk /\ risk <= 500000)
            /\ (fusion_out.risk_level = "Low") <=> (risk < 200000)
            /\ risk = 500000 => fusion_out.risk_level = "Medium"
            /\ risk = 200000 => fusion_out.risk_level = "Medium"
            /\ risk = 199990 => fusion_out.risk_level = "Low"

\* a call whose risk is exactly 0.5
C6_Witness ==
    /\ mode = "fusion" /\ pc = "done"
    /\ FusedRisk(fus_in) = 500000
    /\ fusion_out.risk_level = "Medium"

\* C7: risk = 0.6 audio + 0.2 (confidence if dog_detected else 0) + 0.2 text;
\* with the three inputs in [0,1] the returned risk_score is in [0,1]; a
\* confidence given with dog_detected = false contributes nothing.
C7_WeightedSumInUnitInterval ==
    (mode = "fusion" /\ pc = "done") =>
        LET v    == IF fus_in.dog_detected THEN fus_in.dog_conf ELSE 0
            risk == 6 * fus_in.a + 2 * v + 2 * fus_in.t
        IN  /\ fusion_out.risk_score = RoundDiv(risk, 1000)
            /\ fusion_out.risk_level = Level(risk)
            /\ 0 <= fusion_out.risk_score /\ fusion_out.risk_score <= 1000
            /\ ~fus_in.dog_detected =>
                  fusion_out.risk_score = RoundDiv(6 * fus_in.a + 2 * fus_in.t, 1000)

\* a confidence of 1.0 without a detection, and the largest risk
C7_Witness ==
    /\ mode = "fusion" /\ pc = "done"
    /\ ~fus_in.dog_detected /\ fus_in.dog_conf = 100000
    /\ fus_in.a = 100000 /\ fus_in.t = 100000
    /\ fusion_out.risk_score = 800

\* Low < Medium < High
C8Rank(level) == CASE level = "Low" -> 0 [] level = "Medium" -> 1 [] level = "High" -> 2

\* the second call raises (or keeps) one input and keeps the other two
C8RaisesOneInput(p, q) ==
    LET audioUp  == p.a <= q.a
        visionUp == (p.dog_detected => q.dog_detected) /\ p.dog_conf <= q.dog_conf
        textUp   == p.t <= q.t
        audioEq  == p.a = q.a
        visionEq == p.dog_detected = q.dog_detected /\ p.dog_conf = q.dog_conf
        textEq   == p.t = q.t
    IN  \/ audioUp /\ visionEq /\ textEq
        \/ audioEq /\ visionUp /\ textEq
        \/ audioEq /\ visionEq /\ textUp

\* C8: the risk is non-decreasing in each of the three inputs (audio score,
\* vision flag and confidence, text severity), the other two held fixed, and the
\* risk level never moves down when an input is raised.
C8_Monotone ==
    (mode = "fusion" /\ pc = "done" /\ fus_prev # << >>) =>
        (C8RaisesOneInput(fus_prev[1].in, fus_in) =>
            /\ FusedRisk(fus_prev[1].in) <= FusedRisk(fus_in)
            /\ fus_prev[1].out.risk_score <= fusion_out.risk_score
            /\ C8Rank(fus_prev[1].out.risk_level) <= C8Rank(fusion_out.risk_level))

\* only the detected flag is raised, and the level goes up
C8_Witness ==
    /\ mode = "fusion" /\ pc = "done" /\ fus_prev # << >>
    /\ fus_prev[1].in.a = fus_in.a /\ fus_prev[1].in.t = fus_in.t
    /\ fus_prev[1].in.dog_conf = fus_in.dog_conf
    /\ ~fus_prev[1].in.dog_detected /\ fus_in.dog_detected
    /\ fus_prev[1].out.risk_score < fusion_out.risk_score
    /\ C8Rank(fus_prev[1].out.risk_level) < C8Rank(fusion_out.risk_level)

\* the weights as C9 lists them, in units of 1e-3
C9ConceptWeight ==
    [c \in {"cough", "gagging", "sneeze", "lethargy", "daycare", "appetite_loss"} |->
        CASE c = "cough" -> 250 [] c = "gagging" -> 200 [] c = "sneeze" -> 100
          [] c = "lethargy" -> 200 [] c = "daycare" -> 100 [] c = "appetite_loss" -> 250]

C9ModifierWeight ==
    [m \in {"frequent", "daily/multiple", "night", "dry/hacking"} |->
        CASE m = "frequent" -> 150 [] m = "daily/multiple" -> 150
          [] m = "night" -> 100 [] m = "dry/hacking" -> 100]

RECURSIVE C9Sum(_, _)
C9Sum(S, f) ==
    IF S = {} THEN 0 ELSE LET x == CHOOSE y \in S : TRUE IN f[x] + C9Sum(S \ {x}, f)

\* some variant of some concept, or some modifier pattern, occurs in the text
C9SomethingOccurs(txt) ==
    \/ \E n \in DOMAIN Concepts : \E k \in DOMAIN Patterns(Concepts[n]) :
          Search(txt, Patterns(Concepts[n])[k])
    \/ \E n \in DOMAIN Modifiers : \E pat \in Modifiers[n].pats : Search(txt, pat)

\* C9: severity_score = min(1, sum of the weights of the detected concepts, each
\* once, + sum of the weights of the triggered modifiers, each once); it lies in
\* [0,1], is 0 for a text with no concept keyword and no modifier, and is 0.65
\* with keywords {cough, daycare, lethargy} for the hacking-cough note.
C9_SeverityScore ==
    (mode = "text" /\ pc = "done") =>
        LET K == Range(text_out.keywords)
            M == Range(text_out.modifiers_detected)
        IN  /\ Cardinality(K) = Len(text_out.keywords)
            /\ Cardinality(M) = Len(text_out.modifiers_detected)
            /\ text_out.severity_score =
                    Min(1000, C9Sum(K, C9ConceptWeight) + C9Sum(M, C9ModifierWeight))
            /\ 0 <= text_out.severity_score /\ text_out.severity_score <= 1000
            /\ ~C9SomethingOccurs(Normalize(text)) => text_out.severity_score = 0
            /\ text = HackingNote =>
                  /\ K = {"cough", "daycare", "lethargy"}
                  /\ text_out.severity_score = 650

\* the hacking-cough note has been scored
C9_Witness ==
    /\ mode = "text" /\ pc = "done"
    /\ text = HackingNote
    /\ text_out.severity_score = 650
    /\ text_out.modifiers_detected = <<"dry/hacking">>

\* every frame of the waveform is silent
C10Silent == \A i \in DOMAIN rms : rms[i] = 0

\* C10: for an all-zero waveform of any length and sample rate run_audio returns
\* zero events, no timestamps and score 0.0: no frame exceeds any of the three
\* thresholds median + k * MAD, k = 10, 8, 6.
C10_SilenceScoresZero ==
    (mode = "audio" /\ pc = "done" /\ C10Silent) =>
        /\ audio_out.events = 0
        /\ audio_out.timestamps = << >>
        /\ audio_out.cough_score = 0
        /\ \A k \in {10, 8, 6} : \A i \in DOMAIN Smooth(rms) :
              Smooth(rms)[i] <= Threshold(Smooth(rms), k)

\* a silent waveform long enough to have interior frames has been scored
C10_Witness ==
    /\ mode = "audio" /\ pc = "done"
    /\ C10Silent /\ Len(rms) >= win
    /\ audio_out.events = 0 /\ audio_out.cough_score = 0

\* the frames that are peaks for the threshold median + k * MAD: interior,
\* strictly greater than both neighbours and strictly above the threshold
C11Candidates(S, k) ==
    {i \in 1 .. Len(S) - 2 :
        /\ S[i + 1] > Med(S) + k * Mad(S)
        /\ S[i + 1] > S[i]
        /\ S[i + 1] > S[i + 2]}

\* the first of 10, 8, 6 with a peak (6 if there is none)
C11UsedK(S) ==
    IF C11Candidates(S, 10) # {} THEN 10
    ELSE IF C11Candidates(S, 8) # {} THEN 8
    ELSE 6

\* C11: run_audio tries median + k * MAD for k = 10, 8, 6 in this order and
\* returns the peak set of the first threshold with at least one peak (empty
\* only if all three have none); every returned peak is an interior frame
\* strictly greater than both neighbours and strictly above the threshold used;
\* a lower threshold is never used when a higher one yields a peak.
C11_FirstThresholdWithPeak ==
    (mode = "audio" /\ pc = "done") =>
        LET S    == Smooth(rms)
            k    == C11UsedK(S)
            P    == Range(audio_out.peaks)
            mind == min_distance_frames(sr)
        IN  /\ P \subseteq C11Candidates(S, k)
            /\ (P = {}) <=> (\A j \in {10, 8, 6} : C11Candidates(S, j) = {})
            /\ C11Candidates(S, k) # {} =>
                  /\ audio_out.peaks[1] \in C11Candidates(S, k)
                  /\ \A i \in C11Candidates(S, k) : audio_out.peaks[1] <= i
            /\ \A i \in C11Candidates(S, k) \ P :
                  \E n \in DOMAIN audio_out.peaks :
                      audio_out.peaks[n] < i /\ i - audio_out.peaks[n] < mind

\* the main threshold yields nothing and a fallback yields the reported peak
C11_Witness ==
    /\ mode = "audio" /\ pc = "done"
    /\ C11Candidates(Smooth(rms), 10) = {}
    /\ C11Candidates(Smooth(rms), 8) # {}
    /\ audio_out.events >= 1

\* 1500 * len times the score of n events in a clip of len samples at the
\* given rate, len > 0: the score is 0.5 * min(1, events_per_10s / 6) +
\* 0.5 * min(1, n / 25), times 0.4 if n < 4, and events_per_10s is
\* 10 * n * rate / len
C12Scaled(n, len, rate) ==
    (IF n < 4 THEN 2 ELSE 5) *
        (25 * Min(6 * len, 10 * n * rate) + 6 * len * Min(25, n))

C12Score(n, len, rate) == Rat(C12Scaled(n, len, rate), 1500 * len)

\* C12: the score of run_audio is 0.5 * min(1, events_per_10s / 6) +
\* 0.5 * min(1, event_count / 25), multiplied by 0.4 when event_count < 4
\* (reported to 3 decimals); for every event count and positive duration it
\* lies in [0, 1], is 0 for no events and is non-decreasing in the event count
\* for a fixed duration; the reported count is the number of reported
\* timestamps, and the timestamps increase.
C12_ScoreOfEvents ==
    (mode \in {"audio", "score"} /\ pc = "done") =>
        LET n  == audio_out.events
            ts == audio_out.timestamps
        IN  /\ y_len > 0 =>
                  /\ audio_out.cough_score = RatRound3(C12Score(n, y_len, sr))
                  /\ \A m \in 0 .. n :
                        /\ C12Scaled(m, y_len, sr) <= C12Scaled(n, y_len, sr)
                        /\ RatRound3(C12Score(m, y_len, sr)) <= audio_out.cough_score
            /\ audio_out.cough_score \in 0 .. 1000
            /\ (n = 0) => (audio_out.cough_score = 0)
            /\ n = Len(ts)
            /\ \A i \in 1 .. Len(ts) - 1 : ts[i] < ts[i + 1]

\* a detection of at least four events, scored without the damping, neither
\* part of the score saturated
C12_Witness ==
    /\ mode = "audio" /\ pc = "done"
    /\ audio_out.events >= 4
    /\ audio_out.cough_score > 0
    /\ audio_out.cough_score < 1000

\* a score given to 3 decimals
C13ThreeDecimals(x) == x % (UNIT \div 1000) = 0

\* the label of the rule for a score in units of 1e-3: High above 0.5,
\* Medium from 0.2 to 0.5, else Low
C13LabelOf(score) ==
    IF score > 500 THEN "High"
    ELSE IF score >= 200 THEN "Medium"
    ELSE "Low"

\* C13: in every result of run_fusion, for component scores given to 3
\* decimals in [0, 1], the returned risk_level is the label the rule (High if
\* > 0.5, Medium if 0.2 <= x <= 0.5, else Low) assigns to the returned
\* risk_score, the risk rounded to 3 decimals: the reported score and the
\* reported level never disagree.
C13_LevelOfReportedScore ==
    ( /\ mode = "fusion" /\ pc = "done"
      /\ C13ThreeDecimals(fus_in.a)
      /\ C13ThreeDecimals(fus_in.dog_conf)
      /\ C13ThreeDecimals(fus_in.t) ) =>
        fusion_out.risk_level = C13LabelOf(fusion_out.risk_score)

====
